---- MODULE Spec2Model ----
(***************************************************************************)
(* GoogleFormAgent: discovery of the fillable controls of a rendered       *)
(* document (extractFormFields), acquisition of a label -> value mapping   *)
(* (generateFormData) and application of the mapping (fillForm), as        *)
(* orchestrated by autoFillGoogleForm.                                     *)
(*                                                                         *)
(* Two variants of the engine ship in the repository: the container-aware  *)
(* one (src/unnamed/part_000) and the flat one (src/index.ts).  The        *)
(* variable `variant` says which one a run executes.                       *)
(*                                                                         *)
(* Strings are sequences of tokens, so that String.prototype.includes is   *)
(* the contiguous-subsequence relation and template literals are           *)
(* concatenations.  "" is the empty sequence.                              *)
(***************************************************************************)
EXTENDS Integers, Sequences, FiniteSets, TLC

VARIABLES
    variant,     \* "container" (src/unnamed/part_000) or "flat" (src/index.ts)
    containers,  \* the question containers of the document, in document order
    doc,         \* the controls of the document, in document order
    pc,          \* position of autoFillGoogleForm
    fields,      \* FormField[] returned by extractFormFields
    formData,    \* the mapping returned by generateFormData (label -> value)
    idx,         \* index of the next field of fillForm's loop
    events,      \* clicks and notifications dispatched so far, in order
    requests,    \* number of calls of the value-mapping provider
    caught,      \* the fields whose error fillForm's per-field catch logged
    response,    \* generateFormData's `text`: the provider's answer, tokenised
    thrown       \* TRUE when an error left autoFillGoogleForm

vars == <<variant, containers, doc, pc, fields, formData, idx, events,
          requests, caught, response, thrown>>

\* ------------------------------------------------------------------ bounds

MaxControls == 2

\* ------------------------------------------------------------------ strings

\* the absent element / null of the DOM API (never a text of the document)
Null == <<"null">>

Empty == <<>>

\* a || b on strings: the empty string is falsy
OrElse(a, b) == IF a # Empty THEN a ELSE b

\* (x ?. textContent ?. trim()) || b: an absent element gives undefined
OptOrElse(a, b) == IF a # Null /\ a # Empty THEN a ELSE b

\* s.includes(sub)
Includes(s, sub) ==
    \E i \in 0..(Len(s) - Len(sub)) : SubSeq(s, i + 1, i + Len(sub)) = sub

\* a.includes(b) || b.includes(a)
Bidirectional(a, b) == Includes(a, b) \/ Includes(b, a)

\* the decimal rendering of a number inside a template literal
Num(n) == <<ToString(n)>>

\* the least position of the set S
Least(S) == CHOOSE i \in S : \A j \in S : i <= j

\* the positions of the set S in document order (a NodeList)
RECURSIVE Ordered(_)
Ordered(S) ==
    IF S = {} THEN <<>> ELSE <<Least(S)>> \o Ordered(S \ {Least(S)})

\* Array.prototype.find over the matching positions S: 0 when nothing matches
FirstOf(S) == IF S = {} THEN 0 ELSE Least(S)

\* the concatenation of a sequence of sequences (successive fields.push)
RECURSIVE Concat(_)
Concat(ss) == IF ss = <<>> THEN <<>> ELSE Head(ss) \o Concat(Tail(ss))

\* ------------------------------------------------------------------ document

(***************************************************************************)
(* A control:                                                              *)
(*   kind      "text" (input type text/email/tel), "notype" (input without *)
(*             a type attribute), "textarea", "radio", "checkbox",         *)
(*             "select"                                                    *)
(*   cont      index of the innermost element matching the question        *)
(*             container signature that is the control or an ancestor of   *)
(*             it (el.closest(...)); 0 when there is none                  *)
(*   forL      trimmed text of label[for=id], Null when there is none      *)
(*   wrapL     trimmed text of the closest label ancestor, Null if none    *)
(*   prevL     trimmed text of the nearest preceding sibling that is a     *)
(*             LABEL or carries class "question", Null if none             *)
(*   grpH      trimmed text of the first heading of the closest            *)
(*             role=group / .form-group / .question-group, Null if none    *)
(*   aria, ph, nameAttr   attributes, Empty when absent                    *)
(*   valueProp the value property (text kinds: the current content; radio: *)
(*             the value attribute, "on" when absent)                      *)
(*   checked   the checked property                                        *)
(*   opts      the options of a select, each [text, value]                 *)
(*   sel       index of the selected option of a select, 0 for none        *)
(***************************************************************************)
Blank ==
    [kind |-> "text", cont |-> 0, forL |-> Null, wrapL |-> Null,
     prevL |-> Null, grpH |-> Null, aria |-> Empty, ph |-> Empty,
     nameAttr |-> Empty, valueProp |-> Empty, checked |-> FALSE,
     required |-> FALSE, opts |-> <<>>, sel |-> 0]

TextKinds == {"text", "notype", "textarea"}

(***************************************************************************)
(* A question container (an element matching '[data-params*="question"],   *)
(* .freebirdFormviewerViewItemsItemItem, .m2'):                            *)
(*   parent   index of the enclosing question container, 0 for none        *)
(*   title    trimmed text of its own heading-like descendant             *)
(*            ('.freebirdFormviewerViewItemsItemItemTitle, .m7, h1..h6'),  *)
(*            Null when it has none                                        *)
(*   self     TRUE when the matching element is itself a control (it has   *)
(*            no descendants)                                              *)
(* Containers are listed in document order, so a parent precedes its       *)
(* children; the own heading of a container precedes nested containers.    *)
(***************************************************************************)
RECURSIVE Within(_, _, _)
\* container c is container d or an ancestor of d
Within(cs, c, d) ==
    IF d = 0 THEN FALSE
    ELSE IF d = c THEN TRUE
    ELSE Within(cs, c, cs[d].parent)

\* control e is a descendant of container c (container.querySelectorAll)
Contains(cs, c, e) == ~cs[c].self /\ Within(cs, c, e.cont)

\* ------------------------------------------------------------------ labels

UnknownField == <<"Unknown field">>

\* findLabelForInput: label[for=id], wrapping label, preceding sibling,
\* aria-label, placeholder, 'Unknown field'
findLabelForInput(e) ==
    IF e.forL # Null THEN e.forL
    ELSE IF e.wrapL # Null THEN e.wrapL
    ELSE IF e.prevL # Null THEN e.prevL
    ELSE IF e.aria # Empty THEN e.aria
    ELSE IF e.ph # Empty THEN e.ph
    ELSE UnknownField

\* findGroupLabel: the heading of the closest group, else findLabelForInput
findGroupLabel(e) ==
    IF e.grpH # Null THEN e.grpH ELSE findLabelForInput(e)

\* findLabelText of fillForm's text case: no preceding-sibling step
findLabelTextInput(e) ==
    IF e.forL # Null THEN e.forL
    ELSE IF e.wrapL # Null THEN e.wrapL
    ELSE IF e.aria # Empty THEN e.aria
    ELSE IF e.ph # Empty THEN e.ph
    ELSE UnknownField

\* findLabelText of fillForm's checkbox, select and (flat) radio cases:
\* no preceding-sibling step and no placeholder step
findLabelTextChoice(e) ==
    IF e.forL # Null THEN e.forL
    ELSE IF e.wrapL # Null THEN e.wrapL
    ELSE IF e.aria # Empty THEN e.aria
    ELSE UnknownField

\* findGroupLabelText of the flat fillForm's radio case
findGroupLabelText(e) ==
    IF e.grpH # Null THEN e.grpH ELSE findLabelTextChoice(e)

\* container.querySelector(<heading selector>)?.textContent?.trim():
\* the first heading-like descendant of container c, Null when none
FirstHeading(cs, c) ==
    IF c = 0 \/ cs[c].self THEN Null
    ELSE IF cs[c].title # Null THEN cs[c].title
    ELSE LET j == FirstOf({k \in DOMAIN cs : k > c /\ Within(cs, c, k)
                                               /\ cs[k].title # Null})
         IN  IF j = 0 THEN Null ELSE cs[j].title

\* questionText of extractFormFields: the heading or `Question ${index + 1}`
QuestionText(cs, c) == OptOrElse(FirstHeading(cs, c), <<"Question ">> \o Num(c))

\* ------------------------------------------------------------------ discovery

\* a FormField; cidx is containerIndex + 1 for a field of the container loop
\* and 0 otherwise (the part of `name` that says where the field came from)
Field(type, label, name, required, hasOptions, options, element, cidx) ==
    [type |-> type, label |-> label, name |-> name, required |-> required,
     hasOptions |-> hasOptions, options |-> options, element |-> element,
     cidx |-> cidx]

FieldType(e) == IF e.kind = "textarea" THEN "textarea" ELSE "text"

\* optionText of a radio of the container loop
RadioOptionText(e) ==
    OrElse(OptOrElse(e.wrapL, e.aria), OrElse(e.valueProp, <<"Option">>))

\* checkboxText of checkbox number k (0-based) of a container
CheckboxText(e, k) ==
    OptOrElse(e.wrapL, OrElse(e.aria, <<"Checkbox ">> \o Num(k + 1)))

\* 'input[type="radio"]', 'input[type="checkbox"]', 'select'
RadioKinds == {"radio"}
CheckboxKinds == {"checkbox"}
SelectKinds == {"select"}
\* 'input[type="text"], input[type="email"], input[type="tel"], textarea':
\* the text selector without input:not([type])
TypedKinds == {"text", "textarea"}

IsRadio(e) == e.kind \in RadioKinds
IsCheckbox(e) == e.kind \in CheckboxKinds
IsSelect(e) == e.kind \in SelectKinds
IsTextCapable(e) == e.kind \in TextKinds
IsTyped(e) == e.kind \in TypedKinds

\* container.querySelectorAll(<selector of these kinds>), in document order
InContainer(cs, d, c, kinds) ==
    Ordered({i \in DOMAIN d : Contains(cs, c, d[i]) /\ d[i].kind \in kinds})

\* document.querySelectorAll(<selector of these kinds>), in document order
InDocument(d, kinds) == Ordered({i \in DOMAIN d : d[i].kind \in kinds})

OptionTexts(e) == [k \in 1..Len(e.opts) |-> e.opts[k].text]

\* the radio group of container c: at most one field
RadioGroupOf(cs, d, c) ==
    LET radioInputs == InContainer(cs, d, c, RadioKinds)
    IN  IF Len(radioInputs) > 0
        THEN << Field("radio", QuestionText(cs, c),
                      <<"question_">> \o Num(c - 1), FALSE, TRUE,
                      [k \in 1..Len(radioInputs) |->
                          RadioOptionText(d[radioInputs[k]])],
                      radioInputs[1], c) >>
        ELSE <<>>

\* checkboxes grouped the way radios are: one field for the container
CheckboxesOf_Grouped(cs, d, c) ==
    LET checkboxes == InContainer(cs, d, c, CheckboxKinds)
    IN  IF Len(checkboxes) > 0
        THEN << Field("checkbox", QuestionText(cs, c),
                      <<"question_">> \o Num(c - 1), FALSE, TRUE,
                      [k \in 1..Len(checkboxes) |->
                          CheckboxText(d[checkboxes[k]], k - 1)],
                      checkboxes[1], c) >>
        ELSE <<>>

CheckboxesOf(cs, d, c) ==
    LET checkboxes == InContainer(cs, d, c, CheckboxKinds)
    IN  [k \in 1..Len(checkboxes) |->
            Field("checkbox",
                  QuestionText(cs, c) \o <<" - ">>
                      \o CheckboxText(d[checkboxes[k]], k - 1),
                  <<"question_">> \o Num(c - 1) \o <<"_checkbox_">> \o Num(k - 1),
                  FALSE, FALSE, <<>>, checkboxes[k], c)]

TextInputsOf(cs, d, c) ==
    LET textInputs == InContainer(cs, d, c, TextKinds)
    IN  [k \in 1..Len(textInputs) |->
            Field(FieldType(d[textInputs[k]]), QuestionText(cs, c),
                  <<"question_">> \o Num(c - 1) \o <<"_text_">> \o Num(k - 1),
                  d[textInputs[k]].required, FALSE, <<>>, textInputs[k], c)]

SelectsOf(cs, d, c) ==
    LET selects == InContainer(cs, d, c, SelectKinds)
    IN  [k \in 1..Len(selects) |->
            Field("select", QuestionText(cs, c),
                  <<"question_">> \o Num(c - 1) \o <<"_select_">> \o Num(k - 1),
                  d[selects[k]].required, TRUE, OptionTexts(d[selects[k]]),
                  selects[k], c)]

\* the body of questionContainers.forEach for container c
ContainerFields(cs, d, c) ==
    RadioGroupOf(cs, d, c) \o CheckboxesOf(cs, d, c)
        \o TextInputsOf(cs, d, c) \o SelectsOf(cs, d, c)

\* the sweep without its exclusion check
SkippedBySweep_Never(e) == FALSE

\* "Skip if already processed in question containers":
\* input.closest(<container selector>) is not null
SkippedBySweep(e) == e.cont # 0

\* the fallback sweep over all text-capable controls
FallbackFields(d) ==
    LET allInputs == InDocument(d, TextKinds)
        One(k) == LET e == d[allInputs[k]]
                  IN  IF SkippedBySweep(e) THEN <<>>
                      ELSE << Field(FieldType(e), findLabelForInput(e),
                                    OrElse(e.nameAttr, <<"field_">> \o Num(k - 1)),
                                    e.required, FALSE, <<>>, allInputs[k], 0) >>
    IN  Concat([k \in 1..Len(allInputs) |-> One(k)])

\* extractFormFields of src/unnamed/part_000
ExtractContainer(cs, d) ==
    Concat([c \in 1..Len(cs) |-> ContainerFields(cs, d, c)]) \o FallbackFields(d)

\* the flat variant, src/index.ts -------------------------------------------

FlatTexts(d) ==
    LET textInputs == InDocument(d, TypedKinds)
    IN  [k \in 1..Len(textInputs) |->
            LET e == d[textInputs[k]]
            IN  Field(FieldType(e), findLabelForInput(e),
                      OrElse(e.nameAttr, <<"field_">> \o Num(k - 1)),
                      e.required, FALSE, <<>>, textInputs[k], 0)]

\* radioGroups: one field per distinct name, in order of first occurrence
FlatRadios(d) ==
    LET radioInputs == InDocument(d, RadioKinds)
        First(k) == \A j \in 1..(k - 1) :
                        d[radioInputs[j]].nameAttr # d[radioInputs[k]].nameAttr
        Members(k) == Ordered({j \in DOMAIN radioInputs :
                                  d[radioInputs[j]].nameAttr
                                      = d[radioInputs[k]].nameAttr})
        Group(k) == LET e == d[radioInputs[k]]
                        m == Members(k)
                    IN  IF ~First(k) THEN <<>>
                        ELSE << Field("radio", findGroupLabel(e), e.nameAttr,
                                      e.required, TRUE,
                                      [j \in 1..Len(m) |->
                                          LET r == d[radioInputs[m[j]]]
                                          IN  OrElse(r.valueProp,
                                                     findLabelForInput(r))],
                                      radioInputs[k], 0) >>
    IN  Concat([k \in 1..Len(radioInputs) |-> Group(k)])

FlatCheckboxes(d) ==
    LET checkboxes == InDocument(d, CheckboxKinds)
    IN  [k \in 1..Len(checkboxes) |->
            LET e == d[checkboxes[k]]
            IN  Field("checkbox", findLabelForInput(e),
                      OrElse(e.nameAttr, <<"checkbox_">> \o Num(k - 1)),
                      e.required, FALSE, <<>>, checkboxes[k], 0)]

FlatSelects(d) ==
    LET selects == InDocument(d, SelectKinds)
    IN  [k \in 1..Len(selects) |->
            LET e == d[selects[k]]
            IN  Field("select", findLabelForInput(e),
                      OrElse(e.nameAttr, <<"select_">> \o Num(k - 1)),
                      e.required, TRUE, OptionTexts(e), selects[k], 0)]

\* extractFormFields of src/index.ts
ExtractFlat(d) ==
    FlatTexts(d) \o FlatRadios(d) \o FlatCheckboxes(d) \o FlatSelects(d)

extractFormFields(v, cs, d) ==
    IF v = "container" THEN ExtractContainer(cs, d) ELSE ExtractFlat(d)

\* ------------------------------------------------------------------ values

\* a value of the mapping: a string, a boolean, or undefined / null
Undef == [t |-> "undef", s |-> Empty, b |-> FALSE]
Str(x) == [t |-> "str", s |-> x, b |-> FALSE]
Bool(x) == [t |-> "bool", s |-> Empty, b |-> x]

\* String(value)
StringOf(v) ==
    IF v.t = "str" THEN v.s
    ELSE IF v.t = "bool" THEN (IF v.b THEN <<"true">> ELSE <<"false">>)
    ELSE <<"undefined">>

\* formData[field.label]
Lookup(fd, label) == IF label \in DOMAIN fd THEN fd[label] ELSE Undef

\* the loop without its skip
IsAbsent_Never(v) == FALSE

\* value === undefined || value === null
IsAbsent(v) == v.t = "undef"

\* ------------------------------------------------------------------ application

\* an activation or notification on control `target`, dispatched while
\* fillForm handled field number `by`
Event(type, target, by) == [type |-> type, target |-> target, by |-> by]

\* the document and the event log after a step of fillForm
Outcome(d, ev) == [doc |-> d, events |-> ev]

\* HTMLInputElement.click() on control i: a checkbox toggles; a radio becomes
\* checked and the other radios of its group (same non-empty name) unchecked
Click(d, i) ==
    IF d[i].kind = "checkbox" THEN [d EXCEPT ![i].checked = ~d[i].checked]
    ELSE [j \in DOMAIN d |->
             IF j = i THEN [d[j] EXCEPT !.checked = TRUE]
             ELSE IF d[j].kind = "radio" /\ d[i].nameAttr # Empty
                     /\ d[j].nameAttr = d[i].nameAttr
                  THEN [d[j] EXCEPT !.checked = FALSE]
                  ELSE d[j]]

\* select.value = v: the first option whose value is v, none when no option has it
SelectByValue(e, v) ==
    [e EXCEPT !.sel = FirstOf({k \in DOMAIN e.opts : e.opts[k].value = v})]

\* the last matching input instead of the first
ResolveText_Last(d, fieldLabel) ==
    LET S == {i \in DOMAIN d : IsTyped(d[i])
                   /\ Bidirectional(findLabelTextInput(d[i]), fieldLabel)}
    IN  IF S = {} THEN 0 ELSE CHOOSE i \in S : \A j \in S : j <= i

\* inputs.find(...) of the text case
ResolveText(d, fieldLabel) ==
    FirstOf({i \in DOMAIN d : IsTyped(d[i])
                  /\ Bidirectional(findLabelTextInput(d[i]), fieldLabel)})

\* case 'text' / 'textarea'
ApplyText(d, ev, by, fieldLabel, fieldValue) ==
    LET i == ResolveText(d, fieldLabel)
    IN  IF i = 0 THEN Outcome(d, ev)
        ELSE Outcome([d EXCEPT ![i].valueProp = fieldValue],
                     ev \o << Event("value", i, by), Event("input", i, by),
                              Event("change", i, by) >>)

\* radios.find(...) of src/unnamed/part_000
ResolveRadioContainer(cs, d, fieldLabel, fieldValue) ==
    FirstOf({i \in DOMAIN d :
        LET label == OptOrElse(d[i].wrapL, Empty)
            questionText == OptOrElse(FirstHeading(cs, d[i].cont), Empty)
        IN  /\ IsRadio(d[i])
            /\ (Includes(label, fieldValue) \/ Includes(fieldValue, label))
            /\ Includes(questionText, fieldLabel)})

\* radios.find(...) of src/index.ts
ResolveRadioFlat(d, fieldLabel, fieldValue) ==
    FirstOf({i \in DOMAIN d :
        /\ IsRadio(d[i])
        /\ (Includes(findLabelTextChoice(d[i]), fieldValue)
               \/ d[i].valueProp = fieldValue)
        /\ Includes(findGroupLabelText(d[i]), fieldLabel)})

ResolveRadio(v, cs, d, fieldLabel, fieldValue) ==
    IF v = "container" THEN ResolveRadioContainer(cs, d, fieldLabel, fieldValue)
    ELSE ResolveRadioFlat(d, fieldLabel, fieldValue)

\* case 'radio', inside the options guard
ApplyRadio(v, cs, d, ev, by, fieldLabel, fieldValue) ==
    LET i == ResolveRadio(v, cs, d, fieldLabel, fieldValue)
    IN  IF i = 0 THEN Outcome(d, ev)
        ELSE Outcome(Click(d, i), ev \o << Event("click", i, by) >>)

\* checkboxes.find(...)
ResolveCheckbox(d, fieldLabel) ==
    FirstOf({i \in DOMAIN d : IsCheckbox(d[i])
                  /\ Bidirectional(findLabelTextChoice(d[i]), fieldLabel)})

\* the activation without the comparison
NeedsClick_Always(isChecked, shouldCheck) == TRUE

\* isChecked !== shouldCheck
NeedsClick(isChecked, shouldCheck) == isChecked # shouldCheck

\* case 'checkbox', inside the boolean guard
ApplyCheckbox(d, ev, by, fieldLabel, shouldCheck) ==
    LET i == ResolveCheckbox(d, fieldLabel)
    IN  IF i # 0 /\ NeedsClick(d[i].checked, shouldCheck)
        THEN Outcome(Click(d, i), ev \o << Event("click", i, by) >>)
        ELSE Outcome(d, ev)

\* selects.find(...)
ResolveSelect(d, fieldLabel) ==
    FirstOf({i \in DOMAIN d : IsSelect(d[i])
                  /\ Bidirectional(findLabelTextChoice(d[i]), fieldLabel)})

\* case 'select', inside the options guard
ApplySelect(d, ev, by, fieldLabel, fieldValue) ==
    LET i == ResolveSelect(d, fieldLabel)
    IN  IF i = 0 THEN Outcome(d, ev)
        ELSE Outcome([d EXCEPT ![i] = SelectByValue(d[i], fieldValue)],
                     ev \o << Event("value", i, by), Event("change", i, by) >>)

\* the guard without the membership test
OptionsGuard_AnyValue(field, value) == field.hasOptions

\* field.options && field.options.includes(String(value))
OptionsGuard(field, value) ==
    field.hasOptions
        /\ \E k \in 1..Len(field.options) : field.options[k] = StringOf(value)

\* the switch reaches a page.evaluate call for this field and value
Evaluates(field, value) ==
    CASE field.type \in {"text", "textarea"} -> TRUE
      [] field.type \in {"radio", "select"} -> OptionsGuard(field, value)
      [] field.type = "checkbox" -> value.t = "bool"
      [] OTHER -> FALSE

\* the body of the try block of fillForm for one field with a present value
ApplyField(v, cs, d, ev, by, field, value) ==
    IF ~Evaluates(field, value) THEN Outcome(d, ev)
    ELSE CASE field.type \in {"text", "textarea"} ->
                ApplyText(d, ev, by, field.label, StringOf(value))
           [] field.type = "radio" ->
                ApplyRadio(v, cs, d, ev, by, field.label, StringOf(value))
           [] field.type = "checkbox" ->
                ApplyCheckbox(d, ev, by, field.label, value.b)
           [] OTHER ->
                ApplySelect(d, ev, by, field.label, StringOf(value))

\* ------------------------------------------------------------------ the run

\* fields.length === 0 stops the run (src/unnamed/part_000 only)
StopsOnZeroFields(v, fs) == v = "container" /\ Len(fs) = 0

FieldLabels(fs) == {fs[i].label : i \in DOMAIN fs}

A == <<"a">>
B == <<"b">>
AB == <<"a", "b">>

\* the values the value-mapping provider may give to a label
Values == {Undef, Str(A), Bool(TRUE), Bool(FALSE)}

\* initBrowser or navigateToForm rejects: the error leaves autoFillGoogleForm
AcquireFails ==
    /\ pc = "start"
    /\ pc' = "failed"
    /\ thrown' = TRUE
    /\ UNCHANGED <<variant, containers, doc, fields, formData, idx, events,
                   requests, caught,
                   response>>

\* const fields = await this.extractFormFields(page)
Discover ==
    /\ pc = "start"
    /\ fields' = extractFormFields(variant, containers, doc)
    /\ pc' = "extracted"
    /\ UNCHANGED <<variant, containers, doc, formData, idx, events, requests,
                   caught, thrown,
                   response>>

\* if (fields.length === 0) { ...; return; }
ZeroFields ==
    /\ pc = "extracted"
    /\ StopsOnZeroFields(variant, fields)
    /\ pc' = "stopped"
    /\ UNCHANGED <<variant, containers, doc, fields, formData, idx, events,
                   requests, caught, thrown,
                   response>>

\* the answer holds "{", "}", members of an object ("kv") and other text ("t")
LBrace == "{"
RBrace == "}"
Member == "kv"
Prose == "t"

\* text.match(/\{[\s\S]*\}/): from the first "{" to the last "}" after it,
\* Null when there is no such pair
JsonMatch(text) ==
    LET opens == {i \in DOMAIN text : text[i] = LBrace}
        closes == {j \in DOMAIN text : text[j] = RBrace}
    IN  IF opens = {} \/ \A j \in closes : j < Least(opens) THEN Null
        ELSE SubSeq(text, Least(opens),
                    CHOOSE j \in closes : \A k \in closes : k <= j)

\* a match taken as the object without parsing it
JsonParses_Unchecked(m) == TRUE

\* JSON.parse(jsonMatch[0]) returns: the braces enclose members only
JsonParses(m) ==
    \A i \in 2..(Len(m) - 1) : m[i] = Member

\* generateFormData returns an object for this answer (otherwise it throws)
Extracts(text) == JsonMatch(text) # Null /\ JsonParses(JsonMatch(text))

\* the objects the answer may denote for these fields: an object without
\* members has no key
ObjectsOf(text, fs) ==
    IF \E i \in DOMAIN text : text[i] = Member
    THEN [FieldLabels(fs) -> Values]
    ELSE [FieldLabels(fs) -> {Undef}]

\* the answers of the provider
Responses ==
    { << LBrace, Member, RBrace >>,
      << Prose, LBrace, Member, RBrace, Prose >>,
      << LBrace, RBrace >>,
      << >>,
      << Prose >>,
      << LBrace, Prose, RBrace >>,
      << LBrace, Member, RBrace, Prose, LBrace, Member, RBrace >>,
      << RBrace, Prose, LBrace >> }

\* const result = await this.model.generateContent(prompt); text = response.text()
RequestFormData ==
    /\ pc = "extracted"
    /\ ~StopsOnZeroFields(variant, fields)
    /\ \E text \in Responses : response' = text
    /\ requests' = requests + 1
    /\ pc' = "responded"
    /\ UNCHANGED <<variant, containers, doc, fields, formData, idx, events,
                   caught, thrown>>

\* return JSON.parse(jsonMatch[0]); const formData = await
\* this.generateFormData(fields, context)
GenerateFormData ==
    /\ pc = "responded"
    /\ Extracts(response)
    /\ \E fd \in ObjectsOf(response, fields) : formData' = fd
    /\ response' = <<>>
    /\ idx' = 1
    /\ pc' = "filling"
    /\ UNCHANGED <<variant, containers, doc, fields, events, requests, caught,
                   thrown>>

\* throw new Error('No valid JSON found in response'), or JSON.parse throws:
\* generateFormData rethrows and the error leaves autoFillGoogleForm
ExtractionFails ==
    /\ pc = "responded"
    /\ ~Extracts(response)
    /\ pc' = "failed"
    /\ thrown' = TRUE
    /\ UNCHANGED <<variant, containers, doc, fields, formData, idx, events,
                   requests, caught, response>>

\* this.model.generateContent rejects: generateFormData rethrows and the error
\* leaves autoFillGoogleForm
GenerateFails ==
    /\ pc = "extracted"
    /\ ~StopsOnZeroFields(variant, fields)
    /\ requests' = requests + 1
    /\ pc' = "failed"
    /\ thrown' = TRUE
    /\ UNCHANGED <<variant, containers, doc, fields, formData, idx, events,
                   caught,
                   response>>

\* if (value === undefined || value === null) continue;
SkipField ==
    /\ pc = "filling"
    /\ idx <= Len(fields)
    /\ IsAbsent(Lookup(formData, fields[idx].label))
    /\ idx' = idx + 1
    /\ UNCHANGED <<variant, containers, doc, pc, fields, formData, events,
                   requests, caught, thrown,
                   response>>

\* one iteration of fillForm's loop whose try block completes
FillField ==
    /\ pc = "filling"
    /\ idx <= Len(fields)
    /\ ~IsAbsent(Lookup(formData, fields[idx].label))
    /\ LET out == ApplyField(variant, containers, doc, events, idx, fields[idx],
                             Lookup(formData, fields[idx].label))
       IN  /\ doc' = out.doc
           /\ events' = out.events
    /\ idx' = idx + 1
    /\ UNCHANGED <<variant, containers, pc, fields, formData, requests, caught,
                   thrown,
                   response>>

\* a catch around the whole loop: the first failure ends the pass
AfterCatch_EndsPass(i) == Len(fields) + 1

\* where the loop goes after the catch block ran for field i
AfterCatch(i) == i + 1

\* one iteration whose page.evaluate rejects: the catch block logs the error
FillFieldThrows ==
    /\ pc = "filling"
    /\ idx <= Len(fields)
    /\ ~IsAbsent(Lookup(formData, fields[idx].label))
    /\ Evaluates(fields[idx], Lookup(formData, fields[idx].label))
    /\ caught' = caught \cup {idx}
    /\ idx' = AfterCatch(idx)
    /\ UNCHANGED <<variant, containers, doc, pc, fields, formData, events,
                   requests, thrown,
                   response>>

\* the loop is over: fillForm and autoFillGoogleForm return
FillDone ==
    /\ pc = "filling"
    /\ idx > Len(fields)
    /\ pc' = "done"
    /\ UNCHANGED <<variant, containers, doc, fields, formData, idx, events,
                   requests, caught, thrown,
                   response>>

Next ==
    \/ AcquireFails
    \/ Discover
    \/ ZeroFields
    \/ RequestFormData
    \/ GenerateFormData
    \/ ExtractionFails
    \/ GenerateFails
    \/ SkipField
    \/ FillField
    \/ FillFieldThrows
    \/ FillDone

\* ------------------------------------------------------------------ documents

Container(parent, title) == [parent |-> parent, title |-> title, self |-> FALSE]
\* a control that itself matches the container signature
SelfContainer(parent) == [parent |-> parent, title |-> Null, self |-> TRUE]

\* the controls of a document form a tree walk: the controls under one
\* container are contiguous, disjoint containers follow document order, and the
\* control that is itself a container is the only one in it
WellFormed(cs, d) ==
    /\ \A c \in DOMAIN cs : \A i, j, k \in DOMAIN d :
          (i < j /\ j < k /\ Within(cs, c, d[i].cont) /\ Within(cs, c, d[k].cont))
              => Within(cs, c, d[j].cont)
    /\ \A i, j \in DOMAIN d :
          (i < j /\ d[i].cont # 0 /\ d[j].cont # 0
                 /\ ~Within(cs, d[i].cont, d[j].cont)
                 /\ ~Within(cs, d[j].cont, d[i].cont))
              => d[i].cont < d[j].cont
    /\ \A c \in DOMAIN cs :
          cs[c].self => Cardinality({i \in DOMAIN d : d[i].cont = c}) = 1

\* the documents of at most MaxControls controls built from the shapes
Documents(cs, Shapes) ==
    LET Placed == {[s EXCEPT !.cont = c] : s \in Shapes, c \in 0..Len(cs)}
    IN  {d \in UNION {[1..n -> Placed] : n \in 0..MaxControls} : WellFormed(cs, d)}

InitWith(Variants, Layouts, Shapes) ==
    /\ variant \in Variants
    /\ containers \in Layouts
    /\ doc \in Documents(containers, Shapes)
    /\ pc = "start"
    /\ fields = <<>>
    /\ formData = <<>>
    /\ idx = 0
    /\ events = <<>>
    /\ requests = 0
    /\ caught = {}
    /\ response = <<>>
    /\ thrown = FALSE

\* one control of every kind, labelled in the ways the code looks at
MixedShapes ==
    { [Blank EXCEPT !.kind = "text", !.aria = A],
      [Blank EXCEPT !.kind = "notype", !.ph = B],
      [Blank EXCEPT !.kind = "textarea", !.wrapL = AB],
      [Blank EXCEPT !.kind = "radio", !.wrapL = A, !.valueProp = <<"on">>],
      [Blank EXCEPT !.kind = "radio", !.aria = B, !.valueProp = <<"on">>],
      [Blank EXCEPT !.kind = "checkbox", !.wrapL = A],
      [Blank EXCEPT !.kind = "checkbox", !.aria = B, !.checked = TRUE],
      [Blank EXCEPT !.kind = "select", !.aria = A,
                    !.opts = << [text |-> A, value |-> A],
                                [text |-> B, value |-> <<"v">>] >>] }

MixedLayouts ==
    { <<>>, << Container(0, A) >>, << Container(0, Null) >>,
      << Container(0, AB), Container(0, A) >> }

Variants == {"container", "flat"}

Init == InitWith(Variants, MixedLayouts, MixedShapes)

Spec == Init /\ [][Next]_vars

\* documents of radios: option text from a wrapping label, an aria-label or
\* the value attribute; with and without a name attribute
On == <<"on">>

RadioShapes ==
    { [Blank EXCEPT !.kind = "radio", !.wrapL = A, !.valueProp = On],
      [Blank EXCEPT !.kind = "radio", !.wrapL = B, !.valueProp = On],
      [Blank EXCEPT !.kind = "radio", !.wrapL = AB, !.valueProp = On],
      [Blank EXCEPT !.kind = "radio", !.aria = A, !.valueProp = On],
      [Blank EXCEPT !.kind = "radio", !.aria = B, !.valueProp = On],
      [Blank EXCEPT !.kind = "radio", !.valueProp = A],
      [Blank EXCEPT !.kind = "radio", !.wrapL = A, !.valueProp = A,
                    !.nameAttr = <<"g">>],
      [Blank EXCEPT !.kind = "radio", !.wrapL = B, !.valueProp = B,
                    !.nameAttr = <<"g">>],
      [Blank EXCEPT !.kind = "radio", !.wrapL = B, !.valueProp = B,
                    !.nameAttr = <<"h">>] }

RadioLayouts ==
    { << Container(0, A) >>, << Container(0, Null) >>,
      << Container(0, AB), Container(0, A) >>,
      << Container(0, A), Container(1, Null) >> }

InitRadio == InitWith(Variants, RadioLayouts, RadioShapes)

SpecRadio == InitRadio /\ [][Next]_vars

\* documents of text-capable controls, inside and outside containers
TextShapes ==
    { [Blank EXCEPT !.kind = "text", !.aria = A],
      [Blank EXCEPT !.kind = "text", !.ph = B, !.nameAttr = <<"n">>],
      [Blank EXCEPT !.kind = "text", !.wrapL = AB],
      [Blank EXCEPT !.kind = "notype", !.ph = A],
      [Blank EXCEPT !.kind = "textarea", !.prevL = AB] }

TextLayouts ==
    { <<>>, << Container(0, A) >>, << Container(0, Null) >>,
      << SelfContainer(0) >>,
      << Container(0, A), Container(1, Null) >> }

InitText == InitWith({"container"}, TextLayouts, TextShapes)

SpecText == InitText /\ [][Next]_vars

\* documents of checkboxes, checked and unchecked
CheckboxShapes ==
    { [Blank EXCEPT !.kind = "checkbox", !.wrapL = A],
      [Blank EXCEPT !.kind = "checkbox", !.wrapL = AB, !.checked = TRUE],
      [Blank EXCEPT !.kind = "checkbox", !.aria = B],
      [Blank EXCEPT !.kind = "checkbox", !.forL = A, !.wrapL = B,
                    !.checked = TRUE],
      [Blank EXCEPT !.kind = "checkbox"],
      [Blank EXCEPT !.kind = "checkbox", !.wrapL = Empty] }

CheckboxLayouts ==
    { <<>>, << Container(0, A) >>, << Container(0, Null) >>,
      << Container(0, AB), Container(0, A) >> }

InitCheckbox == InitWith({"container"}, CheckboxLayouts, CheckboxShapes)

SpecCheckbox == InitCheckbox /\ [][Next]_vars

\* documents of dropdowns whose options have a value attribute equal to, or
\* different from, their text
SelectShapes ==
    { [Blank EXCEPT !.kind = "select", !.aria = A,
                    !.opts = << [text |-> A, value |-> A],
                                [text |-> B, value |-> B] >>],
      [Blank EXCEPT !.kind = "select", !.aria = A,
                    !.opts = << [text |-> B, value |-> <<"1">>],
                                [text |-> A, value |-> <<"2">>] >>],
      [Blank EXCEPT !.kind = "select", !.wrapL = AB,
                    !.opts = << [text |-> A, value |-> B],
                                [text |-> B, value |-> A] >>],
      [Blank EXCEPT !.kind = "select", !.opts = << [text |-> A, value |-> A] >>],
      [Blank EXCEPT !.kind = "text", !.aria = A] }

SelectLayouts ==
    { <<>>, << Container(0, A) >>, << Container(0, Null) >> }

InitSelect == InitWith(Variants, SelectLayouts, SelectShapes)

SpecSelect == InitSelect /\ [][Next]_vars

\* ------------------------------------------------------------------ claims

\* extractFormFields has returned
Discovered == pc \in {"extracted", "stopped", "filling", "done"} \/ requests > 0

\* the value the mapping holds for field k
ValueOf(k) == Lookup(formData, fields[k].label)

\* field k has just been handled by an iteration that completed
JustApplied(k) == pc = "filling" /\ idx = k + 1 /\ k \notin caught

\* the controls on which field k dispatched an event of this type
Targets(k, type) ==
    {events[n].target : n \in {m \in DOMAIN events :
                                  events[m].by = k /\ events[m].type = type}}

RadiosOf(c) == InContainer(containers, doc, c, RadioKinds)

CheckboxesIn(c) == InContainer(containers, doc, c, CheckboxKinds)

Range(s) == {s[i] : i \in DOMAIN s}

\* C1: after a single-choice field of a container is applied with a value that
\* is one of its options, exactly one radio was clicked, it is a radio of that
\* container whose option text at discovery is the value, and every other radio
\* of the container is unchecked.
C1_ClicksTheNamedRadio ==
    \A k \in DOMAIN fields :
        ( /\ variant = "container"
          /\ JustApplied(k)
          /\ fields[k].type = "radio"
          /\ ValueOf(k).t = "str"
          /\ ValueOf(k).s \in Range(fields[k].options) )
        => /\ Cardinality({n \in DOMAIN events : events[n].by = k}) = 1
           /\ \E i \in Targets(k, "click") :
                 /\ i \in Range(RadiosOf(fields[k].cidx))
                 /\ RadioOptionText(doc[i]) = ValueOf(k).s
                 /\ \A j \in Range(RadiosOf(fields[k].cidx)) :
                       j # i => ~doc[j].checked

\* C2: in a document with exactly one text-capable control, once the pass is
\* over without a caught error the control holds the string assigned to the
\* label of its field.
C2_SingleTextControlIsFilled ==
    ( /\ variant = "container"
      /\ pc = "done"
      /\ caught = {}
      /\ Cardinality({i \in DOMAIN doc : IsTextCapable(doc[i])}) = 1
      /\ Cardinality({k \in DOMAIN fields :
                         fields[k].type \in {"text", "textarea"}}) = 1 )
    => \A k \in DOMAIN fields :
          (fields[k].type \in {"text", "textarea"} /\ ValueOf(k).t = "str")
              => doc[fields[k].element].valueProp = ValueOf(k).s

ClaimedByContainers == {fields[k].element : k \in {j \in DOMAIN fields : fields[j].cidx # 0}}

ClaimedBySweep == {fields[k].element : k \in {j \in DOMAIN fields : fields[j].cidx = 0}}

\* C3: the controls emitted by the container loop and the controls emitted by
\* the fallback sweep are disjoint.
C3_NoDoubleClaim ==
    (variant = "container" /\ Discovered)
        => ClaimedByContainers \cap ClaimedBySweep = {}

\* C3 witness: a discovery whose container loop and whose sweep both emitted
C3_Witness ==
    /\ variant = "container"
    /\ pc = "extracted"
    /\ ClaimedByContainers # {}
    /\ ClaimedBySweep # {}
    /\ \E i \in DOMAIN doc : IsTextCapable(doc[i]) /\ doc[i].cont # 0

\* the radio fields discovery emitted for container c
RadioFieldsFor(c) ==
    {k \in DOMAIN fields :
        /\ fields[k].type = "radio"
        /\ IF fields[k].cidx # 0 THEN fields[k].cidx = c
           ELSE Contains(containers, c, doc[fields[k].element])}

\* C4: every container that holds a radio gets exactly one single-choice field,
\* with one option per radio of the container.
C4_OneGroupPerContainer ==
    Discovered =>
        \A c \in DOMAIN containers :
            Len(RadiosOf(c)) > 0 =>
                /\ Cardinality(RadioFieldsFor(c)) = 1
                /\ \A k \in RadioFieldsFor(c) :
                      /\ Len(fields[k].options) = Len(RadiosOf(c))
                      /\ fields[k].element = RadiosOf(c)[1]

CheckboxFieldsOf(c) ==
    {k \in DOMAIN fields : fields[k].type = "checkbox" /\ fields[k].cidx = c}

\* the label of field k is the container label, " - ", and a non-empty rest
HasCompositeLabel(k, c) ==
    LET prefix == QuestionText(containers, c) \o <<" - ">>
        e == doc[fields[k].element]
    IN  /\ Len(fields[k].label) > Len(prefix)
        /\ SubSeq(fields[k].label, 1, Len(prefix)) = prefix
        /\ LET rest == SubSeq(fields[k].label, Len(prefix) + 1,
                              Len(fields[k].label))
           IN  \/ rest = e.wrapL
               \/ rest = e.aria
               \/ \E n \in 1..Len(doc) : rest = <<"Checkbox ">> \o Num(n)

\* C5: a container holding N checkboxes gets exactly N checkbox fields, one
\* per checkbox, none of them grouped, each labelled container label + " - " +
\* checkbox label.
C5_OneFieldPerCheckbox ==
    (variant = "container" /\ Discovered) =>
        \A c \in DOMAIN containers :
            /\ Cardinality(CheckboxFieldsOf(c)) = Len(CheckboxesIn(c))
            /\ {fields[k].element : k \in CheckboxFieldsOf(c)}
                   = Range(CheckboxesIn(c))
            /\ \A k \in CheckboxFieldsOf(c) :
                  ~fields[k].hasOptions /\ HasCompositeLabel(k, c)
            /\ \A k \in DOMAIN fields :
                  (fields[k].cidx = c /\ fields[k].type # "checkbox")
                      => ~IsCheckbox(doc[fields[k].element])

\* C5 witness: a discovery over a container of two checkboxes or more
C5_Witness ==
    /\ variant = "container"
    /\ pc = "extracted"
    /\ \E c \in DOMAIN containers :
          Len(CheckboxesIn(c)) >= 2 /\ Cardinality(CheckboxFieldsOf(c)) >= 2

\* C6: no two fields of one discovery carry the same name.
C6_UniqueNames ==
    Discovered =>
        \A k, l \in DOMAIN fields : k # l => fields[k].name # fields[l].name

\* the outcome of applying field k on document d
ApplyOn(d, ev, k) ==
    ApplyField(variant, containers, d, ev, k, fields[k], ValueOf(k))

\* C7: applying a boolean to a checkbox field a second time, right after the
\* first, changes nothing and activates nothing.
C7_CheckboxIdempotent ==
    pc = "filling" =>
        \A k \in DOMAIN fields :
            (fields[k].type = "checkbox" /\ ValueOf(k).t = "bool") =>
                LET once == ApplyOn(doc, <<>>, k)
                    twice == ApplyOn(once.doc, once.events, k)
                IN  /\ twice.doc = once.doc
                    /\ twice.events = once.events
                    /\ JustApplied(k) => ApplyOn(doc, <<>>, k).events = <<>>

\* C7 witness: a checkbox field whose application has clicked a checkbox, away
\* from its initial state
C7_Witness ==
    /\ pc = "filling"
    /\ \E k \in DOMAIN fields :
          /\ fields[k].type = "checkbox"
          /\ JustApplied(k)
          /\ ValueOf(k).t = "bool"
          /\ \E i \in Targets(k, "click") :
                IsCheckbox(doc[i]) /\ doc[i].checked = ValueOf(k).b

\* C8: the iteration for a field whose label has no value changes no control,
\* dispatches nothing, records no error and moves on to the next field.
C8_SkipOnAbsent ==
    [][ ( /\ pc = "filling"
          /\ idx \in DOMAIN fields
          /\ Lookup(formData, fields[idx].label) = Undef )
        => ( /\ doc' = doc
             /\ events' = events
             /\ caught' = caught
             /\ thrown' = thrown
             /\ pc' = pc
             /\ idx' = idx + 1 ) ]_vars

\* C8 witness: a field without a value was passed after another was applied
C8_Witness ==
    /\ pc = "filling"
    /\ idx > 2
    /\ Lookup(formData, fields[idx - 1].label) = Undef
    /\ events # <<>>
    /\ \A n \in DOMAIN events : events[n].by # idx - 1

\* C9: the value-mapping provider is never called after a discovery that
\* returned no field.
C9_NoRequestOnZeroFields ==
    requests > 0 => Len(fields) > 0

\* C10: an error of one field's iteration is caught for that field: the run is
\* still inside the pass, nothing left autoFillGoogleForm, the loop is at the
\* next field, and a finished pass has gone through every field.
C10_CaughtPerField ==
    /\ [][ (pc = "filling" /\ caught' # caught)
           => ( /\ pc' = "filling"
                /\ thrown' = FALSE
                /\ caught' = caught \cup {idx}
                /\ idx' = idx + 1 ) ]_vars
    /\ [](pc \in {"filling", "done"} => ~thrown)
    /\ [](pc = "done" => idx = Len(fields) + 1)

\* C10 witness: a finished pass in which a field failed and a later one was
\* applied
C10_Witness ==
    /\ pc = "done"
    /\ \E k \in caught : \E n \in DOMAIN events : events[n].by > k

\* some part of the answer is an object: braces enclosing members only
HoldsObject(text) ==
    \E i \in DOMAIN text : \E j \in DOMAIN text :
        /\ i < j
        /\ text[i] = "{"
        /\ text[j] = "}"
        /\ \A n \in (i + 1)..(j - 1) : text[n] = "kv"

\* C11: when the provider's answer holds no parseable object, the next step
\* ends the run with an error that leaves autoFillGoogleForm, the document and
\* the event log are untouched, and a run that ended this way does nothing
\* further: no event was ever dispatched in it.
C11_AbortsWithoutObject ==
    /\ [][ (pc = "responded" /\ ~HoldsObject(response))
           => ( /\ pc' = "failed"
                /\ thrown' = TRUE
                /\ doc' = doc
                /\ events' = events ) ]_vars
    /\ [][ pc # "failed" ]_vars
    /\ [](pc = "failed" => thrown /\ events = <<>>)

\* C11 witness: a run over discovered fields ended on an answer that has braces
\* but no object
C11_Witness ==
    /\ pc = "failed"
    /\ thrown
    /\ requests = 1
    /\ Len(fields) > 0
    /\ \E i \in DOMAIN response : response[i] = "{"
    /\ ~HoldsObject(response)
    /\ events = <<>>

\* C12: while fields are applied, the label that application infers for a text
\* control (findLabelText) is the label that discovery infers for it
\* (findLabelForInput).
C12_SameLabelAtApplication ==
    pc = "filling"
    => \A i \in DOMAIN doc :
          IsTextCapable(doc[i])
          => findLabelTextInput(doc[i]) = findLabelForInput(doc[i])

\* the candidates of the text case whose label, as application infers it,
\* contains the field's label or is contained in it
TextMatches(k) ==
    {i \in DOMAIN doc :
        /\ doc[i].kind \in {"text", "textarea"}
        /\ \/ Includes(findLabelTextInput(doc[i]), fields[k].label)
           \/ Includes(fields[k].label, findLabelTextInput(doc[i]))}

\* C13: the iteration that applies a text field with a value sets the value of
\* the first matching candidate in document order and dispatches 'input' and
\* then 'change' on it; nothing else in the document changes and nothing else
\* is dispatched (nothing at all when no candidate matches).
C13_FirstMatchingTextControl ==
    [][ ( /\ pc = "filling"
          /\ idx \in DOMAIN fields
          /\ fields[idx].type \in {"text", "textarea"}
          /\ ValueOf(idx) # Undef
          /\ caught' = caught )
        => IF TextMatches(idx) = {}
           THEN doc' = doc /\ events' = events
           ELSE \E i \in TextMatches(idx) :
                   /\ \A j \in TextMatches(idx) : i <= j
                   /\ doc' = [doc EXCEPT ![i].valueProp = StringOf(ValueOf(idx))]
                   /\ events' = events \o << Event("value", i, idx),
                                             Event("input", i, idx),
                                             Event("change", i, idx) >> ]_vars

\* C13 witness: a text field was applied on a document with two matching
\* candidates; the first has the value and the notifications, 'input' before
\* 'change'
C13_Witness ==
    \E k \in DOMAIN fields :
        /\ JustApplied(k)
        /\ fields[k].type \in {"text", "textarea"}
        /\ Cardinality(TextMatches(k)) = 2
        /\ \E i \in TextMatches(k) :
              /\ \A j \in TextMatches(k) : i <= j
              /\ doc[i].valueProp = StringOf(ValueOf(k))
              /\ \E n \in DOMAIN events :
                    /\ n + 1 \in DOMAIN events
                    /\ events[n] = Event("input", i, k)
                    /\ events[n + 1] = Event("change", i, k)

\* the fields that the container loop emitted for container c, other than
\* checkbox fields (whose label is composite)
QuestionFieldsOf(c) ==
    {k \in DOMAIN fields : fields[k].cidx = c /\ fields[k].type # "checkbox"}

\* the controls inside container c, of any kind
ControlsOf(c) ==
    {i \in DOMAIN doc : Contains(containers, c, doc[i])}

\* C14: the fields of a container without a heading-like descendant carry the
\* label that findLabelForInput infers for the container's first control.
C14_HeadinglessContainerLabel ==
    (Discovered /\ variant = "container")
    => \A c \in DOMAIN containers :
          (FirstHeading(containers, c) = Null /\ ControlsOf(c) # {})
          => \A k \in QuestionFieldsOf(c) :
                fields[k].label = findLabelForInput(doc[Least(ControlsOf(c))])

\* C15: discovery on a document without question containers yields a
\* descriptor for every checkbox and every dropdown and a single-choice
\* descriptor when there are radios; in particular the sequence is not empty
\* when the document has a radio, a checkbox or a dropdown.
C15_ContainerlessYieldsEveryKind ==
    (Discovered /\ containers = <<>>)
    => /\ \A i \in DOMAIN doc :
             (IsCheckbox(doc[i]) \/ IsSelect(doc[i]))
             => \E k \in DOMAIN fields :
                   fields[k].element = i /\ fields[k].type = doc[i].kind
       /\ (\E i \in DOMAIN doc : IsRadio(doc[i]))
             => \E k \in DOMAIN fields : fields[k].type = "radio"
       /\ (\E i \in DOMAIN doc : ~IsTextCapable(doc[i])) => Len(fields) > 0

\* C16: the iteration for a single-choice or choice-list field whose value is
\* not one of the field's options, and the iteration for a checkbox field
\* whose value is not a boolean, click nothing, set nothing and dispatch
\* nothing.
C16_GuardedByOptionsAndBoolean ==
    [][ ( /\ pc = "filling"
          /\ idx \in DOMAIN fields
          /\ \/ /\ fields[idx].type \in {"radio", "select"}
                /\ StringOf(ValueOf(idx)) \notin Range(fields[idx].options)
             \/ /\ fields[idx].type = "checkbox"
                /\ ValueOf(idx) \notin {Bool(TRUE), Bool(FALSE)} )
        => doc' = doc /\ events' = events ]_vars

\* C16 witness: after another field was applied, a single-choice or
\* choice-list field with a present value outside its options, or a checkbox
\* field with a text value, was passed without any event
C16_Witness ==
    \E k \in DOMAIN fields :
        /\ JustApplied(k)
        /\ events # <<>>
        /\ ValueOf(k) # Undef
        /\ \/ /\ fields[k].type \in {"radio", "select"}
              /\ StringOf(ValueOf(k)) \notin Range(fields[k].options)
           \/ /\ fields[k].type = "checkbox"
              /\ ValueOf(k).t = "str"
        /\ \A n \in DOMAIN events : events[n].by # k

\* descriptor k was made from control i: a single-choice descriptor from the
\* radios its options were read from, any other descriptor from its element
MadeFrom(k, i) ==
    IF fields[k].type = "radio"
    THEN IsRadio(doc[i]) /\ Contains(containers, fields[k].cidx, doc[i])
    ELSE fields[k].element = i

\* C17: after a discovery pass of the container-aware engine, every control
\* gave rise to at most one descriptor.
C17_OneDescriptorPerControl ==
    (Discovered /\ variant = "container")
    => \A i \in DOMAIN doc :
          Cardinality({k \in DOMAIN fields : MadeFrom(k, i)}) <= 1

\* C18: after a choice-list field is applied with a value that is one of its
\* options, the dropdown it resolved has a selected option, and the text of
\* that option is the value.
C18_SelectsTheOptionOfThatText ==
    \A k \in DOMAIN fields :
        ( /\ JustApplied(k)
          /\ fields[k].type = "select"
          /\ ValueOf(k) # Undef
          /\ StringOf(ValueOf(k)) \in Range(fields[k].options) )
        => \A i \in Targets(k, "change") :
              /\ doc[i].sel # 0
              /\ doc[i].opts[doc[i].sel].text = StringOf(ValueOf(k))

====
